---- MODULE Spec2Model ----
(***************************************************************************)
(* The versioned state store of counterblockd (lib/database.py): the       *)
(* block-scoped collections, the tracked assets with their embedded        *)
(* version history, rollback(), reset_db_state() and                       *)
(* get_block_indexes_for_dates().                                          *)
(*                                                                         *)
(* The block feed that drives the store (lib/blockfeed.py) is not part of  *)
(* lib/database.py; its writes are modelled from the specification         *)
(* (ProcessBlock, WriteRecords, RecordUpdate), and so are the registered   *)
(* rollback functions (lib/processor.py) and the users of the collections  *)
(* that a reparse does not purge.                                          *)
(*                                                                         *)
(* rollback() is modelled twice from the same operators: as one step       *)
(* (Rollback), and statement by statement (RbCall .. RbReturn) where a     *)
(* crash or a concurrent feed write may fall between two statements.       *)
(***************************************************************************)
EXTENDS Integers, Sequences, FiniteSets, TLC

\* ------------------------------------------------------------------ bounds
\* The feed stops after this block index.
MaxBlock == 3
\* Block times are drawn from 1..MaxTime (fewer times than blocks: ties happen).
MaxTime == 2
\* total_issued values a recordUpdate may write.
MaxQty == 2
\* The feed stops updating an asset whose _history has this many entries.
MaxHistory == 2

\* ------------------------------------------------------- program constants
\* config.BLOCK_FIRST: the first block the feed processes (scaled down).
BLOCK_FIRST == 2
\* config.XCP and config.BTC, the genesis assets.
GenesisAssets == <<"XCP", "BTC">>
\* RollbackProcessor's registered functions, by registration order.
NumHooks == 2

\* Python's None, for a value that is otherwise a document.
None == [none |-> TRUE]
\* config.DB_VERSION, the database version reset_db_state() writes.
DB_VERSION == 1
\* config.LATEST_BLOCK_INIT, the placeholder rollback() falls back to.
LATEST_BLOCK_INIT == [block_index |-> BLOCK_FIRST, block_hash |-> "None"]

VARIABLES
    processed_blocks,         \* set of [block_index, block_time]
    balance_changes,          \* set of [block_index]
    trades,                   \* set of [block_index]
    asset_marketcap_history,  \* set of [block_index]
    transaction_stats,        \* set of [block_index]
    tracked_assets,           \* set of [_id, asset, total_issued, _at_block, _history]
    state,                    \* config.state: my_latest_block, last_message_index, caught_up
    blockinfo_cache,          \* cache.blockinfo_cache: the block indexes it holds
    ret,                      \* what the last call returned or raised
    app_config,               \* set of [_id, db_version, last_block_assets_compiled]
    preferences,              \* set of [wallet_id]
    login_history,            \* set of [wallet_id]
    chat_handles,             \* set of [wallet_id]
    chat_history,             \* set of [wallet_id]
    feeds,                    \* set of [source]
    rb,                       \* the rollback() call in progress, statement by statement
    mark                      \* the documents a reader saw at a block, kept for comparison

store == <<processed_blocks, balance_changes, trades, asset_marketcap_history,
           transaction_stats, tracked_assets>>
\* The collections init_base_indexes() lists as not purged by a reparse.
not_purged == <<preferences, login_history, chat_handles, chat_history, feeds>>
vars == <<processed_blocks, balance_changes, trades, asset_marketcap_history,
          transaction_stats, tracked_assets, state, blockinfo_cache, ret,
          app_config, preferences, login_history, chat_handles, chat_history,
          feeds, rb, mark>>

\* ----------------------------------------------------------------- helpers
Max(S) == CHOOSE x \in S : \A y \in S : y <= x
Min(S) == CHOOSE x \in S : \A y \in S : x <= y

BlockIndexes(coll) == {r.block_index : r \in coll}

\* collection.find_one({"block_index": n})
FindBlock(blocks, n) ==
    IF \E b \in blocks : b.block_index = n
    THEN CHOOSE b \in blocks : b.block_index = n
    ELSE None

\* Every order in which a cursor may yield the documents of S.
RECURSIVE Orders(_)
Orders(S) ==
    IF S = {} THEN {<<>>}
    ELSE UNION {{<<x>> \o p : p \in Orders(S \ {x})} : x \in S}

\* No call has returned since the last write.
NoRet == [op |-> "none"]

\* No rollback() call is in progress.
Idle == [pc |-> "idle", max_block_index |-> 0, removed |-> 0, cursor |-> <<>>,
         scanned |-> {}, hooks |-> <<>>, wrote |-> FALSE, retry |-> FALSE,
         uninterrupted |-> {}, entry |-> None, cut |-> "none"]

\* A feed write lands while a rollback() call is in progress.
FeedWrote(r) == IF r.pc = "idle" THEN r ELSE [r EXCEPT !.wrote = TRUE]

\* No reader has kept what it saw.
NoMark == [max_block_index |-> 0, tracked_assets |-> {}]

\* What a reader saw at block m.max_block_index stays comparable with the
\* store across a rollback to that block, and across no other.
KeepMark(m, max_block_index) ==
    IF m.max_block_index = max_block_index THEN m ELSE NoMark

\* ------------------------------------------------------- reset_db_state()
\* The document reset_db_state() builds for a genesis asset.
BaseAsset(id, asset) ==
    [_id |-> id, asset |-> asset, total_issued |-> 0,
     _at_block |-> BLOCK_FIRST, _history |-> <<>>]

\* tracked_assets after drop() and the two insert()s.
GenesisTrackedAssets ==
    {BaseAsset(i, GenesisAssets[i]) : i \in 1..Len(GenesisAssets)}

\* ResetCounters without the reset of last_message_index.
ResetLatestBlockOnly(st) ==
    [st EXCEPT !.my_latest_block = [block_index |-> 0]]

\* config.state after reset_db_state(): the two counters are reinitialised,
\* caught_up is left as it is.
ResetCounters(st) ==
    [st EXCEPT !.my_latest_block = [block_index |-> 0],
               !.last_message_index = -1]

\* The default app_config object, under the _id the collection gives it.
AppConfigDoc(id) ==
    [_id |-> id, db_version |-> DB_VERSION,
     last_block_assets_compiled |-> BLOCK_FIRST]

\* app_config.update({}, <defaults>, upsert=True): the first document the
\* empty query matches is replaced (it keeps its _id); with no document to
\* match, the defaults are inserted.
UpdateAppConfig(coll) ==
    IF coll = {} THEN {AppConfigDoc(1)}
    ELSE LET d == CHOOSE d \in coll : TRUE
         IN (coll \ {d}) \cup {AppConfigDoc(d._id)}

\* reset_db_state(), from the first drop() to the return. Beside the value it
\* returns, ret keeps what the call found on entry.
ResetDbState ==
    /\ processed_blocks' = {}
    /\ tracked_assets' = GenesisTrackedAssets
    /\ trades' = {}
    /\ balance_changes' = {}
    /\ asset_marketcap_history' = {}
    /\ transaction_stats' = {}
    /\ feeds' = {}
    /\ app_config' = UpdateAppConfig(app_config)
    /\ state' = ResetCounters(state)
    /\ ret' = [op |-> "reset",
               value |-> CHOOSE d \in app_config' : TRUE,
               calls |-> IF ret.op = "reset" THEN 2 ELSE 1,
               entry |-> [processed_blocks |-> processed_blocks,
                          assets |-> {a.asset : a \in tracked_assets},
                          app_config |-> app_config,
                          state |-> state]]
    /\ mark' = NoMark
    /\ UNCHANGED <<blockinfo_cache, preferences, login_history, chat_handles,
                   chat_history, rb>>

\* ---------------------------------------------------------------- rollback()
\* RollbackPrecondition without the find_one of the target block.
RollbackPreconditionAssertOnly(blocks, max_block_index) ==
    max_block_index > 0

\* The assert and the find_one of the target block.
RollbackPrecondition(blocks, max_block_index) ==
    /\ max_block_index > 0
    /\ FindBlock(blocks, max_block_index) # None

\* Above with $gte for $gt.
AtOrAbove(coll, max_block_index) ==
    {r \in coll : r.block_index >= max_block_index}

\* The documents of coll that match {"block_index": {"$gt": max_block_index}}.
Above(coll, max_block_index) ==
    {r \in coll : r.block_index > max_block_index}

\* RemoveAbove with the bound one block too high.
RemoveAboveNext(coll, max_block_index) ==
    coll \ Above(coll, max_block_index + 1)

\* RemoveAbove with $gte for $gt.
RemoveAtOrAbove(coll, max_block_index) ==
    {r \in coll : r.block_index < max_block_index}

\* collection.remove({"block_index": {"$gt": max_block_index}})
RemoveAbove(coll, max_block_index) == coll \ Above(coll, max_block_index)

\* AssetsToPrune with $gte for $gt.
AssetsToPruneAtOrAbove(assets, max_block_index) ==
    {a \in assets : a._at_block >= max_block_index}

\* tracked_assets.find({'_at_block': {"$gt": max_block_index}})
AssetsToPrune(assets, max_block_index) ==
    {a \in assets : a._at_block > max_block_index}

\* PopHistory that stops only at a version before max_block_index.
RECURSIVE PopHistoryStrict(_, _, _)
PopHistoryStrict(history, prev_ver, max_block_index) ==
    IF Len(history) = 0
    THEN [prev_ver |-> prev_ver, history |-> history]
    ELSE LET popped == history[Len(history)]
             rest == SubSeq(history, 1, Len(history) - 1)
         IN IF popped._at_block < max_block_index
            THEN [prev_ver |-> popped, history |-> rest]
            ELSE PopHistoryStrict(rest, popped, max_block_index)

\* The while loop: pop from the newest end until the popped version is at or
\* before max_block_index, or the history is used up.
RECURSIVE PopHistory(_, _, _)
PopHistory(history, prev_ver, max_block_index) ==
    IF Len(history) = 0
    THEN [prev_ver |-> prev_ver, history |-> history]
    ELSE LET popped == history[Len(history)]
             rest == SubSeq(history, 1, Len(history) - 1)
         IN IF popped._at_block <= max_block_index
            THEN [prev_ver |-> popped, history |-> rest]
            ELSE PopHistory(rest, popped, max_block_index)

\* RemoveAsset with a query that matches every document.
RemoveEveryAsset(assets, name) == {}

\* tracked_assets.remove({'asset': name})
RemoveAsset(assets, name) == {a \in assets : a.asset # name}

\* tracked_assets.save(doc): replaces the document with doc's _id.
SaveAsset(assets, doc) == {a \in assets : a._id # doc._id} \cup {doc}

\* RestoredVersion without the assignment of prev_ver['_history'].
RestoredVersionNoHistory(asset, prev_ver, history) ==
    [_id |-> asset._id, asset |-> prev_ver.asset,
     total_issued |-> prev_ver.total_issued,
     _at_block |-> prev_ver._at_block, _history |-> <<>>]

\* RestoredVersion with the _history the cursor yielded, popped entries
\* included.
RestoredVersionFullHistory(asset, prev_ver, history) ==
    [_id |-> asset._id, asset |-> prev_ver.asset,
     total_issued |-> prev_ver.total_issued,
     _at_block |-> prev_ver._at_block, _history |-> asset._history]

\* prev_ver with the asset's _id and what is left of its _history.
RestoredVersion(asset, prev_ver, history) ==
    [_id |-> asset._id, asset |-> prev_ver.asset,
     total_issued |-> prev_ver.total_issued,
     _at_block |-> prev_ver._at_block, _history |-> history]

\* The body of the for loop, for one asset the cursor yields.
PruneAsset(assets, asset, max_block_index) ==
    LET r == PopHistory(asset._history, None, max_block_index)
    IN IF r.prev_ver = None
       THEN assets
       ELSE IF r.prev_ver._at_block > max_block_index
            THEN RemoveAsset(assets, asset.asset)
            ELSE SaveAsset(assets, RestoredVersion(asset, r.prev_ver, r.history))

\* The for loop over the cursor, which yields the documents in `cursor` order.
RECURSIVE PruneAssets(_, _, _)
PruneAssets(assets, cursor, max_block_index) ==
    IF cursor = <<>> THEN assets
    ELSE PruneAssets(PruneAsset(assets, Head(cursor), max_block_index),
                     Tail(cursor), max_block_index)

\* RollbackProcessor.run_active_functions(max_block_index): the call each
\* registered function gets, in registration order. The functions in `failing`
\* fail; the failure is reported and the next function is called, so the
\* call as a whole returns to rollback().
RunActiveFunctions(max_block_index, failing) ==
    [h \in 1..NumHooks |->
        [max_block_index |-> max_block_index, failed |-> h \in failing]]

\* ResetTransientState that leaves caught_up as it is.
ResetMessageIndexOnly(st) ==
    [st EXCEPT !.last_message_index = -1]

\* The counters rollback() resets in config.state.
ResetTransientState(st) ==
    [st EXCEPT !.last_message_index = -1, !.caught_up = FALSE]

\* ClearCache that leaves the cache as it is.
KeepCache(c) == c

\* cache.blockinfo_cache.clear()
ClearCache(c) == {}

\* find_one({"block_index": max_block_index}) or config.LATEST_BLOCK_INIT
LatestBlock(blocks, max_block_index) ==
    IF FindBlock(blocks, max_block_index) # None
    THEN FindBlock(blocks, max_block_index)
    ELSE LATEST_BLOCK_INIT

\* What the five remove() calls of rollback(max_block_index) match.
Matched(max_block_index) ==
    [processed_blocks |-> Above(processed_blocks, max_block_index),
     balance_changes |-> Above(balance_changes, max_block_index),
     trades |-> Above(trades, max_block_index),
     asset_marketcap_history |-> Above(asset_marketcap_history, max_block_index),
     transaction_stats |-> Above(transaction_stats, max_block_index)]

\* Whether the call before this one was a rollback to the same block that
\* returned, with no write since.
Repeats(r, max_block_index) ==
    r.op = "rollback" /\ ~r.raised /\ r.max_block_index = max_block_index

\* The assert fails or the target block is not on record: the call raises.
RollbackRaise(max_block_index) ==
    /\ ~RollbackPrecondition(processed_blocks, max_block_index)
    /\ ret' = [op |-> "rollback", max_block_index |-> max_block_index,
               raised |-> TRUE, value |-> None, hooks |-> <<>>, calls |-> 0,
               matched |-> None, assets_to_prune |-> {}, entry |-> None]
    /\ UNCHANGED <<store, state, blockinfo_cache, app_config, not_purged, rb,
                   mark>>

\* The call runs to its return statement, with the registered functions in
\* `failing` failing. Beside the value it returns, ret keeps what the call
\* found on entry: the records its remove() calls matched, the documents of
\* its assets_to_prune cursor, config.state and the cache.
RollbackRunWith(max_block_index, failing) ==
    /\ RollbackPrecondition(processed_blocks, max_block_index)
    /\ processed_blocks' = RemoveAbove(processed_blocks, max_block_index)
    /\ balance_changes' = RemoveAbove(balance_changes, max_block_index)
    /\ trades' = RemoveAbove(trades, max_block_index)
    /\ asset_marketcap_history' = RemoveAbove(asset_marketcap_history, max_block_index)
    /\ transaction_stats' = RemoveAbove(transaction_stats, max_block_index)
    /\ \E cursor \in Orders(AssetsToPrune(tracked_assets, max_block_index)) :
          tracked_assets' = PruneAssets(tracked_assets, cursor, max_block_index)
    /\ state' = ResetTransientState(state)
    /\ blockinfo_cache' = ClearCache(blockinfo_cache)
    /\ ret' = [op |-> "rollback", max_block_index |-> max_block_index,
               raised |-> FALSE,
               value |-> LatestBlock(processed_blocks', max_block_index),
               hooks |-> RunActiveFunctions(max_block_index, failing),
               calls |-> IF Repeats(ret, max_block_index) THEN 2 ELSE 1,
               matched |-> Matched(max_block_index),
               assets_to_prune |-> AssetsToPrune(tracked_assets, max_block_index),
               entry |-> [state |-> state, blockinfo_cache |-> blockinfo_cache]]
    /\ mark' = KeepMark(mark, max_block_index)
    /\ UNCHANGED <<app_config, not_purged, rb>>

\* The call runs to its return statement and no registered function fails.
RollbackRun(max_block_index) == RollbackRunWith(max_block_index, {})

\* rollback(max_block_index), from the assert to the return, with the
\* registered functions in `failing` failing.
RollbackWithHooks(max_block_index, failing) ==
    RollbackRaise(max_block_index) \/ RollbackRunWith(max_block_index, failing)

\* rollback(max_block_index), from the assert to the return.
Rollback(max_block_index) ==
    RollbackRaise(max_block_index) \/ RollbackRun(max_block_index)

\* ------------------------------------------- rollback(), statement by statement
\* The block-scoped collections, in the order rollback() prunes them.
BlockScoped == <<"processed_blocks", "balance_changes", "trades",
                 "asset_marketcap_history", "transaction_stats">>

\* RemoveFrom when only processed_blocks is pruned.
RemoveFromBlocksOnly(coll, name, target, max_block_index) ==
    IF name = target /\ name = "processed_blocks"
    THEN RemoveAbove(coll, max_block_index) ELSE coll

\* The remove() call on the collection `target`, seen from collection `name`.
RemoveFrom(coll, name, target, max_block_index) ==
    IF name = target THEN RemoveAbove(coll, max_block_index) ELSE coll

\* The stores a rollback(max_block_index) call that nothing interrupts may
\* leave, one for each order the cursor may yield the documents in.
UninterruptedStores(max_block_index) ==
    {<<RemoveAbove(processed_blocks, max_block_index),
       RemoveAbove(balance_changes, max_block_index),
       RemoveAbove(trades, max_block_index),
       RemoveAbove(asset_marketcap_history, max_block_index),
       RemoveAbove(transaction_stats, max_block_index),
       PruneAssets(tracked_assets, cursor, max_block_index)>> :
        cursor \in Orders(AssetsToPrune(tracked_assets, max_block_index))}

\* config.state in a process that has just started.
FreshProcess ==
    [my_latest_block |-> [block_index |-> 0], last_message_index |-> -1,
     caught_up |-> FALSE]

\* rollback(max_block_index) is called and passes the assert and the find_one
\* of the target block. When the call repeats one that a crash cut short, rb
\* keeps the stores the first call would have left had it run to its end.
RbCall(max_block_index) ==
    /\ rb.pc = "idle"
    /\ rb.retry => max_block_index = rb.max_block_index
    /\ RollbackPrecondition(processed_blocks, max_block_index)
    /\ rb' = [pc |-> "remove", max_block_index |-> max_block_index,
              removed |-> 0, cursor |-> <<>>, scanned |-> {}, hooks |-> <<>>,
              wrote |-> FALSE, retry |-> rb.retry,
              uninterrupted |-> IF rb.retry THEN rb.uninterrupted
                                ELSE UninterruptedStores(max_block_index),
              entry |-> [state |-> state, blockinfo_cache |-> blockinfo_cache],
              cut |-> rb.cut]
    /\ ret' = NoRet
    /\ UNCHANGED <<store, state, blockinfo_cache, app_config, not_purged, mark>>

\* rollback(max_block_index) is called and raises.
RbRaise(max_block_index) ==
    /\ rb.pc = "idle"
    /\ rb.retry => max_block_index = rb.max_block_index
    /\ RollbackRaise(max_block_index)

\* The next of the five remove() calls.
RbRemove ==
    /\ rb.pc = "remove"
    /\ LET target == BlockScoped[rb.removed + 1]
           t == rb.max_block_index
       IN /\ processed_blocks' =
                 RemoveFrom(processed_blocks, "processed_blocks", target, t)
          /\ balance_changes' =
                 RemoveFrom(balance_changes, "balance_changes", target, t)
          /\ trades' = RemoveFrom(trades, "trades", target, t)
          /\ asset_marketcap_history' =
                 RemoveFrom(asset_marketcap_history, "asset_marketcap_history",
                            target, t)
          /\ transaction_stats' =
                 RemoveFrom(transaction_stats, "transaction_stats", target, t)
    /\ rb' = [rb EXCEPT !.removed = @ + 1,
                        !.pc = IF rb.removed + 1 = Len(BlockScoped)
                               THEN "find" ELSE "remove"]
    /\ UNCHANGED <<tracked_assets, state, blockinfo_cache, ret, app_config,
                   not_purged, mark>>

\* The find() of the assets to prune: the cursor holds the documents as they
\* are now, in the order it will yield them.
RbFind ==
    /\ rb.pc = "find"
    /\ \E cursor \in Orders(AssetsToPrune(tracked_assets, rb.max_block_index)) :
          rb' = [rb EXCEPT !.cursor = cursor,
                           !.scanned = AssetsToPrune(tracked_assets,
                                                     rb.max_block_index),
                           !.pc = IF cursor = <<>> THEN "hooks" ELSE "prune"]
    /\ UNCHANGED <<store, state, blockinfo_cache, ret, app_config, not_purged,
                   mark>>

\* One iteration of the for loop.
RbPrune ==
    /\ rb.pc = "prune"
    /\ tracked_assets' =
           PruneAsset(tracked_assets, Head(rb.cursor), rb.max_block_index)
    /\ rb' = [rb EXCEPT !.cursor = Tail(rb.cursor),
                        !.pc = IF Tail(rb.cursor) = <<>> THEN "hooks"
                               ELSE "prune"]
    /\ UNCHANGED <<processed_blocks, balance_changes, trades,
                   asset_marketcap_history, transaction_stats, state,
                   blockinfo_cache, ret, app_config, not_purged, mark>>

\* The registered rollback functions are run.
RbHooks ==
    /\ rb.pc = "hooks"
    /\ rb' = [rb EXCEPT !.hooks = RunActiveFunctions(rb.max_block_index, {}),
                        !.pc = "reset"]
    /\ UNCHANGED <<store, state, blockinfo_cache, ret, app_config, not_purged,
                   mark>>

\* The resets of config.state and the cache, and the return.
RbReturn ==
    /\ rb.pc = "reset"
    /\ state' = ResetTransientState(state)
    /\ blockinfo_cache' = ClearCache(blockinfo_cache)
    /\ ret' = [op |-> "rollback", max_block_index |-> rb.max_block_index,
               raised |-> FALSE,
               value |-> LatestBlock(processed_blocks, rb.max_block_index),
               hooks |-> rb.hooks,
               calls |-> IF rb.retry THEN 2 ELSE 1,
               matched |-> None,
               assets_to_prune |-> rb.scanned,
               entry |-> rb.entry,
               wrote |-> rb.wrote,
               uninterrupted |-> rb.uninterrupted,
               cut |-> rb.cut]
    /\ rb' = Idle
    /\ mark' = KeepMark(mark, rb.max_block_index)
    /\ UNCHANGED <<store, app_config, not_purged>>

\* The process dies while rollback() is between two statements and is
\* started again; the store keeps what the call has written so far.
Crash ==
    /\ rb.pc # "idle"
    /\ rb' = [Idle EXCEPT !.retry = TRUE,
                          !.max_block_index = rb.max_block_index,
                          !.uninterrupted = rb.uninterrupted,
                          !.cut = rb.pc]
    /\ state' = FreshProcess
    /\ blockinfo_cache' = {}
    /\ ret' = NoRet
    /\ UNCHANGED <<store, app_config, not_purged, mark>>

\* A statement of the rollback() call in progress.
RbStep == RbRemove \/ RbFind \/ RbPrune \/ RbHooks \/ RbReturn

\* ------------------------------------------------------------ the block feed
\* The block the feed is processing: the one after the newest processed block.
CurrentBlock ==
    IF processed_blocks = {} THEN BLOCK_FIRST
    ELSE Max(BlockIndexes(processed_blocks)) + 1

\* The newest block_time on record (block times do not decrease with the index).
LastBlockTime ==
    IF processed_blocks = {} THEN 1
    ELSE Max({b.block_time : b \in processed_blocks})

\* The block-scoped collections the feed writes to (processed_blocks is the
\* fifth, written by ProcessBlock).
DerivedCollections ==
    {"balance_changes", "trades", "asset_marketcap_history", "transaction_stats"}

\* coll with a record of the block being processed, when the feed writes to it.
WithRecord(coll, name, colls) ==
    IF name \in colls THEN coll \cup {[block_index |-> CurrentBlock]} ELSE coll

\* The feed writes the records the block it is processing produces in `colls`.
WriteRecords(colls) ==
    /\ CurrentBlock <= MaxBlock
    /\ balance_changes' = WithRecord(balance_changes, "balance_changes", colls)
    /\ trades' = WithRecord(trades, "trades", colls)
    /\ asset_marketcap_history' =
           WithRecord(asset_marketcap_history, "asset_marketcap_history", colls)
    /\ transaction_stats' =
           WithRecord(transaction_stats, "transaction_stats", colls)
    /\ ret' = NoRet
    /\ rb' = FeedWrote(rb)
    /\ UNCHANGED <<processed_blocks, tracked_assets, state, blockinfo_cache,
                   app_config, not_purged, mark>>

\* An _id no document of the collection has.
NewId(assets) == Min({i \in 1..(Cardinality(assets) + 1) :
                        \A a \in assets : a._id # i})

\* The snapshot of the current version that goes into _history.
Snapshot(doc) ==
    [asset |-> doc.asset, total_issued |-> doc.total_issued,
     _at_block |-> doc._at_block]

\* recordUpdate(key, newAttributes, atBlock) on the collection.
RecordUpdateDoc(assets, key, total_issued, at_block) ==
    IF \E a \in assets : a.asset = key
    THEN LET cur == CHOOSE a \in assets : a.asset = key
         IN SaveAsset(assets,
                [cur EXCEPT !.total_issued = total_issued,
                            !._at_block = at_block,
                            !._history = Append(cur._history, Snapshot(cur))])
    ELSE assets \cup {[_id |-> NewId(assets), asset |-> key,
                       total_issued |-> total_issued,
                       _at_block |-> at_block, _history |-> <<>>]}

\* The feed records an asset change made by the block it is processing.
RecordUpdate(key, total_issued) ==
    /\ CurrentBlock <= MaxBlock
    /\ \A a \in tracked_assets :
          a.asset = key =>
             /\ CurrentBlock >= a._at_block
             /\ Len(a._history) < MaxHistory
    /\ tracked_assets' =
           RecordUpdateDoc(tracked_assets, key, total_issued, CurrentBlock)
    /\ ret' = NoRet
    /\ rb' = FeedWrote(rb)
    /\ UNCHANGED <<processed_blocks, balance_changes, trades,
                   asset_marketcap_history, transaction_stats, state,
                   blockinfo_cache, app_config, not_purged, mark>>

\* The feed finishes the block it is processing: the block goes on record, its
\* info is cached, and the process-wide state follows (the feed has caught up
\* with the chain as far as it has processed it).
ProcessBlock(block_time) ==
    /\ CurrentBlock <= MaxBlock
    /\ block_time >= LastBlockTime
    /\ LET blk == [block_index |-> CurrentBlock, block_time |-> block_time]
       IN /\ processed_blocks' = processed_blocks \cup {blk}
          /\ state' = [my_latest_block |-> blk,
                       last_message_index |-> blk.block_index,
                       caught_up |-> TRUE]
          /\ blockinfo_cache' = blockinfo_cache \cup {blk.block_index}
    /\ ret' = NoRet
    /\ rb' = FeedWrote(rb)
    /\ UNCHANGED <<balance_changes, trades, asset_marketcap_history,
                   transaction_stats, tracked_assets, app_config, not_purged,
                   mark>>

\* A reader takes the current documents that are at or before a block on
\* record, to compare them with the store later.
ReadCurrentState(block_index) ==
    /\ block_index \in BlockIndexes(processed_blocks)
    /\ mark' = [max_block_index |-> block_index,
                tracked_assets |-> {a \in tracked_assets :
                                       a._at_block <= block_index}]
    /\ mark' # mark
    /\ ret' = NoRet
    /\ UNCHANGED <<store, state, blockinfo_cache, app_config, not_purged, rb>>

\* The asset compilation task records the block it has compiled up to.
CompileAssets ==
    /\ processed_blocks # {}
    /\ app_config' =
           {[d EXCEPT !.last_block_assets_compiled =
                          Max(BlockIndexes(processed_blocks))] : d \in app_config}
    /\ app_config' # app_config
    /\ ret' = NoRet
    /\ UNCHANGED <<store, state, blockinfo_cache, not_purged, rb, mark>>

\* The wallets that use the server, and the sources of the feeds it tracks.
Wallets == {"w1"}
FeedSources == {"f1"}

\* A wallet logs in, stores its preferences and chats.
UserActivity(wallet_id) ==
    /\ [wallet_id |-> wallet_id] \notin preferences
    /\ preferences' = preferences \cup {[wallet_id |-> wallet_id]}
    /\ login_history' = login_history \cup {[wallet_id |-> wallet_id]}
    /\ chat_handles' = chat_handles \cup {[wallet_id |-> wallet_id]}
    /\ chat_history' = chat_history \cup {[wallet_id |-> wallet_id]}
    /\ ret' = NoRet
    /\ UNCHANGED <<store, state, blockinfo_cache, app_config, feeds, rb, mark>>

\* A feed subscription is stored.
StoreFeed(source) ==
    /\ [source |-> source] \notin feeds
    /\ feeds' = feeds \cup {[source |-> source]}
    /\ ret' = NoRet
    /\ UNCHANGED <<store, state, blockinfo_cache, app_config, preferences,
                   login_history, chat_handles, chat_history, rb, mark>>

\* ---------------------------------------------- get_block_indexes_for_dates()
\* A timestamp argument is <<dt>>; one left at its default of None is <<>>.
NoTimestamp == <<>>

\* The documents find_one({"block_time": {"$lte": dt}}, sort block_time
\* DESCENDING) may return: the sort key is block_time alone, so the order of
\* blocks of equal block_time is whatever the store yields.
LatestAtOrBefore(blocks, dt) ==
    LET m == {b \in blocks : b.block_time <= dt}
    IN {b \in m : \A c \in m : c.block_time <= b.block_time}

\* The documents find_one({"block_time": {"$gte": dt}}, sort block_time
\* ASCENDING) may return.
EarliestAtOrAfter(blocks, dt) ==
    LET m == {b \in blocks : b.block_time >= dt}
    IN {b \in m : \A c \in m : c.block_time >= b.block_time}

\* The values start_block_index may take.
StartBlockIndexes(blocks, start_dt) ==
    IF start_dt = NoTimestamp THEN {BLOCK_FIRST}
    ELSE IF LatestAtOrBefore(blocks, start_dt[1]) = {} THEN {BLOCK_FIRST}
    ELSE BlockIndexes(LatestAtOrBefore(blocks, start_dt[1]))

\* The values end_block_index may take; none when the fallback find_one finds
\* no block to subscript.
EndBlockIndexes(blocks, st, end_dt) ==
    IF end_dt = NoTimestamp THEN {st.my_latest_block.block_index}
    ELSE IF EarliestAtOrAfter(blocks, end_dt[1]) = {}
         THEN IF blocks = {} THEN {} ELSE {Max(BlockIndexes(blocks))}
         ELSE BlockIndexes(EarliestAtOrAfter(blocks, end_dt[1]))

\* get_block_indexes_for_dates(start_dt, end_dt)
GetBlockIndexesForDates(start_dt, end_dt) ==
    /\ \/ /\ EndBlockIndexes(processed_blocks, state, end_dt) = {}
          /\ ret' = [op |-> "range", start_dt |-> start_dt, end_dt |-> end_dt,
                     raised |-> TRUE, value |-> None]
       \/ \E s \in StartBlockIndexes(processed_blocks, start_dt),
             e \in EndBlockIndexes(processed_blocks, state, end_dt) :
             ret' = [op |-> "range", start_dt |-> start_dt, end_dt |-> end_dt,
                     raised |-> FALSE, value |-> <<s, e>>]
    /\ UNCHANGED <<store, state, blockinfo_cache, app_config, not_purged, rb,
                   mark>>

\* The timestamps a caller asks about: none, or one from before the first
\* block time to after the last.
Timestamps == {NoTimestamp} \cup {<<dt>> : dt \in 0..(MaxTime + 1)}

\* ------------------------------------------------------------ specification
\* The state reset_db_state() leaves in a fresh process.
Init ==
    /\ processed_blocks = {}
    /\ balance_changes = {}
    /\ trades = {}
    /\ asset_marketcap_history = {}
    /\ transaction_stats = {}
    /\ tracked_assets = GenesisTrackedAssets
    /\ state = [my_latest_block |-> [block_index |-> 0],
                last_message_index |-> -1, caught_up |-> FALSE]
    /\ blockinfo_cache = {}
    /\ ret = NoRet
    /\ app_config = {AppConfigDoc(1)}
    /\ preferences = {}
    /\ login_history = {}
    /\ chat_handles = {}
    /\ chat_history = {}
    /\ feeds = {}
    /\ rb = Idle
    /\ mark = NoMark

\* The feed, rollback() and reset_db_state(), one call at a time (the feed
\* suspends its writes while rollback runs). A block's records are written to
\* the four derived collections together, one asset is issued, and the clock
\* stands still.
Next ==
    \/ ProcessBlock(LastBlockTime)
    \/ WriteRecords(DerivedCollections)
    \/ \E q \in 1..MaxQty : RecordUpdate("A", q)
    \/ \E n \in 0..MaxBlock : Rollback(n)
    \/ ResetDbState

Spec == Init /\ [][Next]_vars

\* The same machine with each derived collection written on its own and no
\* asset issued.
NextRecords ==
    \/ ProcessBlock(LastBlockTime)
    \/ \E name \in DerivedCollections : WriteRecords({name})
    \/ \E n \in 0..MaxBlock : Rollback(n)
    \/ ResetDbState

SpecRecords == Init /\ [][NextRecords]_vars

\* The resolver over the stores the feed and rollback() leave, with block
\* times that advance or stand still from one block to the next.
NextRange ==
    \/ \E t \in 1..MaxTime : ProcessBlock(t)
    \/ \E n \in 0..MaxBlock : Rollback(n)
    \/ ResetDbState
    \/ \E start_dt \in Timestamps, end_dt \in Timestamps :
          GetBlockIndexesForDates(start_dt, end_dt)

SpecRange == Init /\ [][NextRange]_vars

\* The machine of Spec with the collections reset_db_state() and rollback()
\* are not meant to purge in use, and the asset compilation task running.
NextReset ==
    \/ ProcessBlock(LastBlockTime)
    \/ WriteRecords(DerivedCollections)
    \/ RecordUpdate("A", MaxQty)
    \/ CompileAssets
    \/ \E w \in Wallets : UserActivity(w)
    \/ \E f \in FeedSources : StoreFeed(f)
    \/ \E n \in 0..MaxBlock : Rollback(n)
    \/ ResetDbState

SpecReset == Init /\ [][NextReset]_vars

\* The assets the feed issues when it tracks two of them.
IssuedAssets == {"A", "B"}

\* The feed issuing and updating two assets, rollback() and reset_db_state().
NextAssets ==
    \/ ProcessBlock(LastBlockTime)
    \/ \E key \in IssuedAssets : RecordUpdate(key, MaxQty)
    \/ \E n \in 0..MaxBlock : Rollback(n)
    \/ ResetDbState

SpecAssets == Init /\ [][NextAssets]_vars

\* The machine of Spec with registered rollback functions that may fail.
NextHooks ==
    \/ ProcessBlock(LastBlockTime)
    \/ WriteRecords(DerivedCollections)
    \/ RecordUpdate("A", MaxQty)
    \/ \E n \in 0..MaxBlock, failing \in SUBSET (1..NumHooks) :
          RollbackWithHooks(n, failing)
    \/ ResetDbState

SpecHooks == Init /\ [][NextHooks]_vars

\* rollback() statement by statement with one writer: the feed and
\* reset_db_state() wait while a call is in progress, the process may die
\* between two statements, and the call is then repeated before anything else
\* is written.
NextCrash ==
    \/ /\ rb = Idle
       /\ \/ ProcessBlock(LastBlockTime)
          \/ WriteRecords(DerivedCollections)
          \/ \E key \in IssuedAssets : RecordUpdate(key, MaxQty)
          \/ ResetDbState
    \/ \E n \in 0..MaxBlock : RbCall(n) \/ RbRaise(n)
    \/ RbStep
    \/ Crash

SpecCrash == Init /\ [][NextCrash]_vars

\* rollback() statement by statement with the feed writing on regardless.
NextConcurrent ==
    \/ ProcessBlock(LastBlockTime)
    \/ WriteRecords(DerivedCollections)
    \/ RecordUpdate("A", MaxQty)
    \/ rb = Idle /\ ResetDbState
    \/ \E n \in 0..MaxBlock : RbCall(n) \/ RbRaise(n)
    \/ RbStep

SpecConcurrent == Init /\ [][NextConcurrent]_vars

\* The machine of Spec with a reader that keeps what it saw at a block.
NextRoundTrip ==
    \/ ProcessBlock(LastBlockTime)
    \/ \E q \in 1..MaxQty : RecordUpdate("A", q)
    \/ \E n \in 1..MaxBlock : ReadCurrentState(n)
    \/ \E n \in 0..MaxBlock : Rollback(n)
    \/ ResetDbState

SpecRoundTrip == Init /\ [][NextRoundTrip]_vars

\* ------------------------------------------------------------------ claims
\* A rollback(max_block_index) call has just returned.
Returned == ret.op = "rollback" /\ ~ret.raised

\* The indexes of the entries of history at or before block t.
AtOrBefore(history, t) ==
    {i \in 1..Len(history) : history[i]._at_block <= t}

\* C1: after a completed rollback(t), none of the five block-scoped
\* collections holds a record with block_index > t.
C1_NoRecordAboveTarget ==
    Returned =>
        /\ \A r \in processed_blocks : r.block_index <= ret.max_block_index
        /\ \A r \in balance_changes : r.block_index <= ret.max_block_index
        /\ \A r \in trades : r.block_index <= ret.max_block_index
        /\ \A r \in asset_marketcap_history : r.block_index <= ret.max_block_index
        /\ \A r \in transaction_stats : r.block_index <= ret.max_block_index

\* A rollback has returned that found records above its target in each of the
\* five collections.
C1_Witness ==
    /\ Returned
    /\ ret.matched.processed_blocks # {}
    /\ ret.matched.balance_changes # {}
    /\ ret.matched.trades # {}
    /\ ret.matched.asset_marketcap_history # {}
    /\ ret.matched.transaction_stats # {}

\* C2: after a completed rollback(t), no tracked asset has a current
\* _at_block > t (each asset that was above t is at or before t, or gone).
C2_NoAssetAboveTarget ==
    Returned =>
        \A a \in tracked_assets : a._at_block <= ret.max_block_index

\* C3: an asset whose current _at_block is above t and whose _history has no
\* entry at or before t (an empty _history included) is removed by rollback(t).
C3_RemovedWithoutEarlierVersion ==
    Returned =>
        \A a \in ret.assets_to_prune :
            AtOrBefore(a._history, ret.max_block_index) = {} =>
                ~ \E d \in tracked_assets : d.asset = a.asset

\* C4: an asset whose current _at_block is above t and whose _history has an
\* entry at or before t is, after rollback(t), the newest such entry, under the
\* same _id, with the entries that preceded it as its _history, in order.
C4_RestoredToNewestEarlierVersion ==
    Returned =>
        \A a \in ret.assets_to_prune :
            AtOrBefore(a._history, ret.max_block_index) # {} =>
                LET k == Max(AtOrBefore(a._history, ret.max_block_index))
                    docs == {d \in tracked_assets : d.asset = a.asset}
                IN /\ Cardinality(docs) = 1
                   /\ \A d \in docs :
                         /\ d._id = a._id
                         /\ d.total_issued = a._history[k].total_issued
                         /\ d._at_block = a._history[k]._at_block
                         /\ d._history = SubSeq(a._history, 1, k - 1)

\* A rollback has returned that restored an asset to the second of its two
\* history entries, whose total_issued differs from the one it replaced.
C4_Witness ==
    /\ Returned
    /\ \E a \in ret.assets_to_prune :
          /\ Len(a._history) = 2
          /\ Max(AtOrBefore(a._history, ret.max_block_index) \cup {0}) = 2
          /\ a._history[2].total_issued # a.total_issued

\* C5: rollback(t) with t <= 0, or with no block of index t on record, raises
\* and changes nothing: the collections, the tracked assets, config.state and
\* the cache are as they were, and no rollback hook is called.
C5_RaisesBeforeAnyMutation ==
    [][(/\ ret'.op = "rollback"
        /\ \/ ret'.max_block_index <= 0
           \/ ~ \E b \in processed_blocks : b.block_index = ret'.max_block_index)
       => /\ ret'.raised
          /\ ret'.hooks = <<>>
          /\ UNCHANGED <<store, state, blockinfo_cache>>]_vars

\* A rollback to a positive block index that is not on record has raised, with
\* blocks, derived records and an issued asset in the store.
C5_Witness ==
    /\ ret.op = "rollback"
    /\ ret.raised
    /\ ret.max_block_index > 0
    /\ processed_blocks # {}
    /\ trades # {}
    /\ \E a \in tracked_assets : a.asset = "A"

\* C6: rollback(t) called again right after rollback(t) has returned, with no
\* write in between, returns too, returns the same block record, and leaves
\* the collections, the tracked assets, config.state and the cache as the
\* first call left them.
C6_RollbackIdempotent ==
    [][(/\ ret.op = "rollback"
        /\ ~ret.raised
        /\ ret'.op = "rollback"
        /\ ret'.max_block_index = ret.max_block_index)
       => /\ ~ret'.raised
          /\ ret'.value = ret.value
          /\ UNCHANGED <<store, state, blockinfo_cache>>]_vars

\* rollback(t) has returned twice in a row, and the second call still found an
\* asset above t in its cursor.
C6_Witness ==
    /\ Returned
    /\ ret.calls = 2
    /\ ret.assets_to_prune # {}

\* A get_block_indexes_for_dates(start_dt, end_dt) call has just returned.
Resolved == ret.op = "range" /\ ~ret.raised

\* C7: whenever a block at or after BLOCK_FIRST is on record,
\* get_block_indexes_for_dates returns start_block_index <= end_block_index
\* (stated for the calls whose start_dt, when both are given, is not after
\* end_dt; a call may give either, both or neither).
C7_StartNotAfterEnd ==
    (/\ Resolved
     /\ \E b \in processed_blocks : b.block_index >= BLOCK_FIRST
     /\ \/ ret.start_dt = NoTimestamp
        \/ ret.end_dt = NoTimestamp
        \/ ret.start_dt[1] <= ret.end_dt[1])
    => ret.value[1] <= ret.value[2]

\* C8: when a block at or before start_dt and a block at or after end_dt are on
\* record, every block whose block_time is within [start_dt, end_dt] has its
\* block_index within the range returned.
C8_RangeContainsWindow ==
    (/\ Resolved
     /\ ret.start_dt # NoTimestamp
     /\ ret.end_dt # NoTimestamp
     /\ \E b \in processed_blocks : b.block_time <= ret.start_dt[1]
     /\ \E b \in processed_blocks : b.block_time >= ret.end_dt[1])
    => \A b \in processed_blocks :
          (ret.start_dt[1] <= b.block_time /\ b.block_time <= ret.end_dt[1])
          => (ret.value[1] <= b.block_index /\ b.block_index <= ret.value[2])

\* C9: when rollback(t) returns, last_message_index is -1, caught_up is false
\* and the block info cache is empty.
C9_TransientStateReset ==
    Returned =>
        /\ state.last_message_index = -1
        /\ state.caught_up = FALSE
        /\ blockinfo_cache = {}

\* A rollback has returned that was entered with a message index assigned, the
\* feed caught up and the info of a block above the target in the cache.
C9_Witness ==
    /\ Returned
    /\ ret.entry.state.last_message_index # -1
    /\ ret.entry.state.caught_up
    /\ \E n \in ret.entry.blockinfo_cache : n > ret.max_block_index

\* C10: rollback(t) returns the block record of index t, which is still on
\* record; it never returns LATEST_BLOCK_INIT.
C10_ReturnsTargetBlock ==
    Returned =>
        /\ ret.value \in processed_blocks
        /\ ret.value.block_index = ret.max_block_index
        /\ ret.value # LATEST_BLOCK_INIT

\* A rollback has returned its target block after removing the blocks above it.
C10_Witness ==
    /\ Returned
    /\ ret.matched.processed_blocks # {}
    /\ ret.value.block_index = ret.max_block_index

\* reset_db_state() has just returned.
WasReset == ret.op = "reset"

\* C11: after reset_db_state() every block-scoped collection is empty,
\* tracked_assets holds one document per genesis asset, each at BLOCK_FIRST
\* with an empty _history, app_config holds exactly one document, the latest
\* processed block index is 0 and last_message_index is -1; a second call
\* right after the first leaves all of this as it is.
C11_ResetState ==
    /\ [](WasReset =>
            /\ processed_blocks = {}
            /\ balance_changes = {}
            /\ trades = {}
            /\ asset_marketcap_history = {}
            /\ transaction_stats = {}
            /\ \A i \in 1..Len(GenesisAssets) :
                  Cardinality({a \in tracked_assets :
                                  a.asset = GenesisAssets[i]}) = 1
            /\ \A a \in tracked_assets :
                  /\ \E i \in 1..Len(GenesisAssets) : a.asset = GenesisAssets[i]
                  /\ a._at_block = BLOCK_FIRST
                  /\ a._history = <<>>
            /\ Cardinality(app_config) = 1
            /\ state.my_latest_block.block_index = 0
            /\ state.last_message_index = -1)
    /\ [][WasReset /\ ret'.op = "reset" =>
              UNCHANGED <<store, app_config, state>>]_vars

\* C11 witness: reset_db_state() returned from a store that held blocks, an
\* issued asset and an app_config document an earlier task had updated.
C11_Witness ==
    /\ WasReset
    /\ ret.entry.processed_blocks # {}
    /\ "A" \in ret.entry.assets
    /\ ret.entry.app_config # app_config
    /\ ret.entry.state.last_message_index # -1

\* C12: a step of rollback() or reset_db_state() leaves preferences,
\* login_history, chat_handles, chat_history and feeds as they were.
C12_NotPurgedUnchanged ==
    [][ret'.op \in {"rollback", "reset"} => UNCHANGED not_purged]_vars

\* The documents of the collection under one natural key.
WithKey(assets, key) == {a \in assets : a.asset = key}

C15_VersionedEntityInvariant ==
    /\ \A a \in tracked_assets :
          /\ \A i \in 1..(Len(a._history) - 1) :
                a._history[i]._at_block <= a._history[i + 1]._at_block
          /\ Len(a._history) > 0 =>
                a._at_block >= a._history[Len(a._history)]._at_block
    /\ \A a \in tracked_assets, b \in tracked_assets :
          a.asset = b.asset => a = b

\* C15 witness: a rollback returned that restored an asset to an earlier
\* version which itself has a history.
C15_Witness ==
    /\ Returned
    /\ \E a \in ret.assets_to_prune :
          \E d \in tracked_assets :
             /\ d.asset = a.asset
             /\ d._at_block <= ret.max_block_index
             /\ Len(d._history) > 0
             /\ Len(d._history) < Len(a._history)

\* The start index the policy names: the first block when no start time is
\* given or no block is at or before it, else the index of the latest block
\* with block_time <= start_dt.
PolicyStart(blocks, start_dt) ==
    IF start_dt = NoTimestamp \/ \A b \in blocks : b.block_time > start_dt[1]
    THEN BLOCK_FIRST
    ELSE Max({b.block_index : b \in {c \in blocks : c.block_time <= start_dt[1]}})

\* The end index the policy names: the latest processed block when no end
\* time is given, else the index of the earliest block with block_time >=
\* end_dt, or the highest index on record when there is none.
PolicyEnd(blocks, st, end_dt) ==
    IF end_dt = NoTimestamp THEN st.my_latest_block.block_index
    ELSE IF \E b \in blocks : b.block_time >= end_dt[1]
         THEN Min({b.block_index : b \in {c \in blocks : c.block_time >= end_dt[1]}})
         ELSE Max(BlockIndexes(blocks))

\* C16: every get_block_indexes_for_dates(start_dt, end_dt) call returns a
\* pair, whatever the store holds, and the pair is the one the policy names.
C16_ResolvesByPolicy ==
    ret.op = "range" =>
       /\ ~ret.raised
       /\ ret.value[1] = PolicyStart(processed_blocks, ret.start_dt)
       /\ ret.value[2] = PolicyEnd(processed_blocks, state, ret.end_dt)

\* Some block-scoped collection holds a record above block t.
RecordAbove(t) ==
    \/ Above(processed_blocks, t) # {}
    \/ Above(balance_changes, t) # {}
    \/ Above(trades, t) # {}
    \/ Above(asset_marketcap_history, t) # {}
    \/ Above(transaction_stats, t) # {}

\* C17: after a crash at any statement of rollback(t), the repeated call
\* finds the target block on record, and when it returns the store is one
\* that the first call would have left had nothing interrupted it.
C17_RetryEndsAsUninterrupted ==
    /\ (rb.pc = "idle" /\ rb.retry) =>
          RollbackPrecondition(processed_blocks, rb.max_block_index)
    /\ (Returned /\ ret.cut # "none") => store \in ret.uninterrupted

\* C17 witness: the process died between two iterations of the for loop and
\* the repeated call, which still found an asset to rewind, has returned.
C17_Witness ==
    /\ Returned
    /\ ret.cut = "prune"
    /\ \E a \in ret.assets_to_prune : a \notin tracked_assets

\* C18: within a rollback(t) call, tracked_assets is not written before the
\* five remove() calls are done and no block-scoped record above t is left
\* from then on; when the registered functions run, every asset the cursor
\* held has been dealt with; config.state and the cache are reset only after
\* the registered functions have run.
C18_StepsInOrder ==
    /\ [](rb.pc \in {"find", "prune", "hooks", "reset"} =>
             ~RecordAbove(rb.max_block_index))
    /\ [](rb.pc \in {"hooks", "reset"} =>
             \A a \in rb.scanned :
                WithKey(tracked_assets, a.asset) =
                   PruneAsset({a}, a, rb.max_block_index))
    /\ [][rb.pc \in {"remove", "find"} => UNCHANGED tracked_assets]_vars
    /\ [][(/\ rb.pc # "idle"
           /\ ~rb'.retry
           /\ state' # state \/ blockinfo_cache' # blockinfo_cache) =>
              /\ rb.pc = "reset"
              /\ DOMAIN rb.hooks = 1..NumHooks]_vars

\* C18 witness: the for loop has rewound one asset and has another to go.
C18_Witness ==
    /\ rb.pc = "prune"
    /\ Len(rb.cursor) < Cardinality(rb.scanned)
    /\ \E a \in rb.scanned : a \notin tracked_assets

\* C19: when rollback(t) returns with a block-scoped record or a tracked
\* asset above t in the store, the feed wrote while the call was in progress.
C19_AboveTargetOnlyAfterInterleavedWrite ==
    (/\ Returned
     /\ \/ RecordAbove(ret.max_block_index)
        \/ \E a \in tracked_assets : a._at_block > ret.max_block_index) =>
       ret.wrote

\* C20: a document that was current at or before block t, whatever
\* recordUpdate calls the feed has made on it at blocks above t since, is in
\* the store again after rollback(t), with the attributes, the _at_block and
\* the _history it had.
C20_UpdateRollbackRoundTrip ==
    (Returned /\ mark.max_block_index = ret.max_block_index) =>
       \A a \in mark.tracked_assets : a \in tracked_assets

\* C20 witness: a rollback(t) returned that rewound an asset which had been
\* updated more than once since a reader saw it at block t.
C20_Witness ==
    /\ Returned
    /\ mark.max_block_index = ret.max_block_index
    /\ \E a \in ret.assets_to_prune :
          \E m \in mark.tracked_assets :
             /\ m.asset = a.asset
             /\ Len(a._history) > Len(m._history) + 1
====
